---- MODULE Spec2Model ----
(***************************************************************************)
(* repnum (src/repnum.c): parse a numeral with strtoull, print it in       *)
(* decimal, hexadecimal, octal and binary.                                 *)
(*                                                                         *)
(* Integer widths are scaled: unsigned long long has ULLBits bits and int  *)
(* has IntBits bits (the build has 64 and 32). int stays narrower than     *)
(* unsigned long long and still holds every base of [2, 36].               *)
(* A C string is a sequence of one-character strings; the terminator is    *)
(* not part of the sequence.                                               *)
(***************************************************************************)
EXTENDS Integers, Sequences, FiniteSets, TLC

\* ------------------------------------------------------------- bounds
ULLBits == 8
IntBits == 7
MaxLen == 3
MaxOpts == 1
MaxCap == 10

RECURSIVE Pow2(_)
Pow2(k) == IF k = 0 THEN 1 ELSE 2 * Pow2(k - 1)

ULLONG_MAX == Pow2(ULLBits) - 1

\* ---------------------------------------------------------- constants
SUCCESS == 0
FAILURE == 1
INVALID_ARGS == 2
INCOMPLETE == 3
OVERFLOW == 4
ERANGE == 34
BUFFER_SIZE == 1024
MIN_BASE == 2
MAX_BASE == 36

\* ------------------------------------------------------------- inputs
Alphabet == {"0", "1", "3", "f", "F", "z", "x", "-", "+", " "}
Texts == UNION {[1..k -> Alphabet] : k \in 0..MaxLen}
NULL == <<"NULL">>
Bases == {0, 2, 8, 10, 16, 36}
Values == 0..ULLONG_MAX
UNINIT == 0 - 1

\* ------------------------------------------------------ libc: strtoull
DecDigits == <<"0", "1", "2", "3", "4", "5", "6", "7", "8", "9">>
LowLetters == <<"a", "b", "c", "d", "e", "f", "g", "h", "i", "j", "k", "l", "m",
                "n", "o", "p", "q", "r", "s", "t", "u", "v", "w", "x", "y", "z">>
UpLetters == <<"A", "B", "C", "D", "E", "F", "G", "H", "I", "J", "K", "L", "M",
               "N", "O", "P", "Q", "R", "S", "T", "U", "V", "W", "X", "Y", "Z">>

IndexOf(seq, c) == IF \E i \in DOMAIN seq : seq[i] = c
                   THEN CHOOSE i \in DOMAIN seq : seq[i] = c
                   ELSE 0

\* the digit value of a character, MAX_BASE for a character that is no digit
DigitVal(c) ==
    IF IndexOf(DecDigits, c) > 0 THEN IndexOf(DecDigits, c) - 1
    ELSE IF IndexOf(LowLetters, c) > 0 THEN IndexOf(LowLetters, c) + 9
    ELSE IF IndexOf(UpLetters, c) > 0 THEN IndexOf(UpLetters, c) + 9
    ELSE MAX_BASE

isspace(c) == c = " "

RECURSIVE SkipSpace(_, _)
SkipSpace(s, i) == IF i <= Len(s) /\ isspace(s[i]) THEN SkipSpace(s, i + 1) ELSE i

\* the digit loop of strtoull: i the value so far, s the next index, over
\* whether the value left the range; digits after an overflow are consumed
RECURSIVE Accumulate(_, _, _, _, _)
Accumulate(str, s, b, i, over) ==
    IF s > Len(str) \/ DigitVal(str[s]) >= b
    THEN [i |-> i, s |-> s, over |-> over]
    ELSE LET c == DigitVal(str[s])
             cutoff == ULLONG_MAX \div b
             cutlim == ULLONG_MAX % b
         IN IF over \/ i > cutoff \/ (i = cutoff /\ c > cutlim)
            THEN Accumulate(str, s + 1, b, i, TRUE)
            ELSE Accumulate(str, s + 1, b, i * b + c, FALSE)

\* strtoull(nptr, &end, base): val the returned value, end the index of the
\* first character not consumed (1 when end == nptr, Len + 1 when *end == 0),
\* range whether errno is set to ERANGE
strtoull(nptr, b0) ==
    LET n == Len(nptr)
        i0 == SkipSpace(nptr, 1)
        negative == i0 <= n /\ nptr[i0] = "-"
        i1 == IF i0 <= n /\ nptr[i0] \in {"-", "+"} THEN i0 + 1 ELSE i0
        zero == i1 <= n /\ nptr[i1] = "0"
        hexp == zero /\ b0 \in {0, 16} /\ i1 + 1 <= n /\ nptr[i1 + 1] \in {"x", "X"}
        b == IF hexp THEN 16
             ELSE IF b0 = 0 THEN (IF zero THEN 8 ELSE 10)
             ELSE b0
        save == IF hexp THEN i1 + 2 ELSE i1
        acc == Accumulate(nptr, save, b, 0, FALSE)
    IN IF acc.s = save
       THEN [val |-> 0, end |-> IF hexp THEN save - 1 ELSE 1, range |-> FALSE]
       ELSE IF acc.over
       THEN [val |-> ULLONG_MAX, end |-> acc.s, range |-> TRUE]
       ELSE [val |-> IF negative THEN (0 - acc.i) % Pow2(ULLBits) ELSE acc.i,
             end |-> acc.s, range |-> FALSE]

\* --------------------------------------------------------------- str2ull
\* str2ull(str, num, base) called with errno = e; nump: num is not null;
\* num0: what *num holds before the call. The outcome: the returned code,
\* what *num holds after, errno after.
\* lines 139-147, r what strtoull returned and e1 errno after it
str2ullClassify(str, num0, r, e1) ==
    IF r.val = 0 /\ r.end = 1
    THEN [ret |-> FAILURE, num |-> num0, errno |-> e1]
    ELSE IF e1 = ERANGE
    THEN [ret |-> OVERFLOW, num |-> num0, errno |-> e1]
    ELSE [ret |-> IF r.end <= Len(str) THEN INCOMPLETE ELSE SUCCESS,
          num |-> r.val, errno |-> e1]

\* strtoull sets errno to ERANGE on overflow and leaves it alone otherwise
ErrnoAfter(r, e) == IF r.range THEN ERANGE ELSE e

str2ullConvert(str, num0, r, e) == str2ullClassify(str, num0, r, ErrnoAfter(r, e))

str2ull(str, nump, num0, base, e) ==
    IF str = NULL \/ str = <<>> \/ ~nump
    THEN [ret |-> INVALID_ARGS, num |-> num0, errno |-> e]
    ELSE str2ullConvert(str, num0, strtoull(str, base), e)

\* --------------------------------------------------------------- num2bin
NUL == "NUL"
iseven(n) == n % 2 = 0

\* the frame of a num2bin call: v the value passed, num and n the parameters
\* as the loop changes them, cap the n passed, buf the cells of buf written
\* so far (an unwritten cell is indeterminate), oob the offsets written
\* outside buf, null whether the returned pointer is NULL and off its offset
\* from buf
num2binFrame(v, cap) ==
    [v |-> v, num |-> v, n |-> cap, cap |-> cap, buf |-> <<>>, oob |-> {},
     pc |-> "entry", null |-> FALSE, off |-> UNINIT]

InBuf(f, i) == 0 <= i /\ i < f.cap

\* buf[i] = c
Store(f, i, c) ==
    IF InBuf(f, i)
    THEN [f EXCEPT !.buf = (i :> c) @@ f.buf]
    ELSE [f EXCEPT !.oob = f.oob \cup {i}, !.pc = "undefined"]

\* buf[n-1] = 0;
num2binEntry(f) ==
    LET g == Store(f, f.n - 1, NUL)
    IN IF g.pc = "undefined" THEN g ELSE [g EXCEPT !.pc = "test"]

\* a post-decrement in place of the pre-decrement: while (n--)
num2binTestPostDecrement(f) ==
    [f EXCEPT !.n = f.n - 1, !.pc = IF f.n # 0 THEN "body" ELSE "ret"]

\* while (--n)
num2binTest(f) ==
    [f EXCEPT !.n = f.n - 1, !.pc = IF f.n - 1 # 0 THEN "body" ELSE "ret"]

\* the loop body without its break: the loop runs until n reaches 0
num2binBodyNoBreak(f) ==
    LET s == IF iseven(f.num) THEN "0" ELSE "1"
        g == Store(f, f.n - 1, s)
    IN IF g.pc = "undefined" THEN g
       ELSE [g EXCEPT !.num = f.num \div 2, !.pc = "test"]

\* s = iseven(num) ? '0' : '1'; buf[n-1] = s; if (!(num /= 2)) break;
num2binBody(f) ==
    LET s == IF iseven(f.num) THEN "0" ELSE "1"
        g == Store(f, f.n - 1, s)
    IN IF g.pc = "undefined" THEN g
       ELSE [g EXCEPT !.num = f.num \div 2,
                      !.pc = IF f.num \div 2 = 0 THEN "ret" ELSE "test"]

\* return &buf[n-1];
num2binReturn(f) == [f EXCEPT !.null = FALSE, !.off = f.n - 1, !.pc = "done"]

num2binStep(f) ==
    CASE f.pc = "entry" -> num2binEntry(f)
      [] f.pc = "test" -> num2binTest(f)
      [] f.pc = "body" -> num2binBody(f)
      [] f.pc = "ret" -> num2binReturn(f)

RECURSIVE num2binRun(_)
num2binRun(f) == IF f.pc \in {"done", "undefined"} THEN f ELSE num2binRun(num2binStep(f))

\* num2bin(num, buf, n), run to its return
num2bin(v, cap) == num2binRun(num2binFrame(v, cap))

\* the C string at buf + off, every cell of it written
RECURSIVE StringAt(_, _)
StringAt(f, i) ==
    IF f.buf[i] = NUL THEN <<>> ELSE <<f.buf[i]>> \o StringAt(f, i + 1)

\* the strings a read of the returned pointer can give: the string at the
\* offset when it is inside buf; when the pointer is buf - 1 the byte there
\* is indeterminate, followed by what buf holds
ResultStrings(f) ==
    IF InBuf(f, f.off) THEN {StringAt(f, f.off)}
    ELSE {<<>>} \cup {<<g>> \o StringAt(f, 0) : g \in {"0", "1", "x"}}

\* ------------------------------------------------- ensurenum, ensurebase
\* the conversion of an unsigned long long to int (ensurebase's parameter)
ToInt(v) ==
    LET m == v % Pow2(IntBits)
    IN IF m >= Pow2(IntBits - 1) THEN m - Pow2(IntBits) ELSE m

\* the switch of ensurenum on r, what str2ull returned. exits: errx(1, ...)
\* was called.
ensurenumSwitch(r) ==
    [status |-> r.ret,
     exits |-> r.ret \in {FAILURE, INCOMPLETE, OVERFLOW},
     msg |-> IF r.ret \in {FAILURE, INCOMPLETE} THEN "not a valid number"
             ELSE IF r.ret = OVERFLOW THEN "too large number" ELSE "",
     val |-> r.num, errno |-> r.errno]

\* ensurenum(s, 0, b) called with errno = e; temp0 is what the local temp
\* holds before it is assigned
ensurenum(s, b, e, temp0) == ensurenumSwitch(str2ull(s, TRUE, temp0, b, e))

\* what the uninitialized temp can hold when ensurenum returns it unassigned
TempValues(s, b, e) ==
    IF str2ull(s, TRUE, UNINIT, b, e).ret = INVALID_ARGS THEN Values ELSE {UNINIT}

\* ensurebase(b): whether it returns (TRUE) or calls errx(1, ...)
ensurebase(b) == ~(b < MIN_BASE \/ b > MAX_BASE)

\* ------------------------------------------------------------- the state
VARIABLES
    pc,         \* where the process is
    errno,      \* the process-wide errno
    str,        \* str2ull's str of the last call
    base,       \* str2ull's base of the last call
    nump,       \* whether str2ull's num was non-null in the last call
    num0,       \* what the caller's num held before the last call
    num,        \* what the caller's num holds
    ret,        \* what the last str2ull call returned
    nb,         \* the num2bin frame
    out,        \* the binary string read from num2bin's result
    info,       \* struct numinfo info
    optarg,     \* the argument of the last -b option
    optstatus,  \* ensurenum's status for the last -b option
    optval,     \* what ensurenum returned for the last -b option
    nopts,      \* the options parsed so far
    seen,       \* the codes str2ull returned in this run
    exitcode,   \* the exit code of the process once it ended
    msg         \* the diagnostic or output the run ended with

vars == <<pc, errno, str, base, nump, num0, num, ret, nb, out, info, optarg,
          optstatus, optval, nopts, seen, exitcode, msg>>

callVars == <<str, base, nump, num0, num, ret>>
driverVars == <<info, optarg, optstatus, optval, nopts, seen, exitcode, msg>>

NoFrame == [v |-> 0, num |-> 0, n |-> 0, cap |-> 0, buf |-> <<>>, oob |-> {},
            pc |-> "none", null |-> FALSE, off |-> UNINIT]

InitCall ==
    /\ str = NULL /\ base = 0 /\ nump = FALSE
    /\ num0 = UNINIT /\ num = UNINIT /\ ret = UNINIT

InitDriver ==
    /\ info = [num |-> 0, base |-> 0]
    /\ optarg = NULL /\ optstatus = UNINIT /\ optval = UNINIT
    /\ nopts = 0 /\ seen = {} /\ exitcode = UNINIT /\ msg = ""

\* ------------------------------------------------ the program: main
Init ==
    /\ pc = "parseopts" /\ errno = 0
    /\ InitCall /\ InitDriver
    /\ nb = NoFrame /\ out = <<>>

Exit(c, m) == pc' = "exit" /\ exitcode' = c /\ msg' = m

\* case 'b': info.base = ensurebase(ensurenum(optarg, 0, 10));
OptB(arg) ==
    /\ pc = "parseopts" /\ nopts < MaxOpts
    /\ \E temp0 \in TempValues(arg, 10, errno) :
         \E r \in {ensurenum(arg, 10, errno, temp0)} :
            /\ str' = arg /\ base' = 10 /\ nump' = TRUE
            /\ num0' = temp0 /\ num' = r.val /\ ret' = r.status
            /\ errno' = r.errno
            /\ seen' = seen \cup {r.status}
            /\ optarg' = arg /\ optstatus' = r.status
            /\ nopts' = nopts + 1
            /\ IF r.exits
               THEN /\ Exit(1, r.msg)
                    /\ optval' = UNINIT
                    /\ info' = info
               ELSE /\ optval' = r.val
                    /\ IF ensurebase(ToInt(r.val))
                       THEN /\ info' = [info EXCEPT !.base = ToInt(r.val)]
                            /\ UNCHANGED <<pc, exitcode, msg>>
                       ELSE /\ Exit(1, "Unsupported base")
                            /\ info' = info
    /\ UNCHANGED <<nb, out>>

\* case 'h': help(0);
OptH ==
    /\ pc = "parseopts" /\ nopts < MaxOpts
    /\ Exit(0, "help") /\ nopts' = nopts + 1
    /\ UNCHANGED <<errno, callVars, nb, out, info, optarg, optstatus, optval, seen>>

\* case 'v': printf(...); exit(0);
OptV ==
    /\ pc = "parseopts" /\ nopts < MaxOpts
    /\ Exit(0, "version") /\ nopts' = nopts + 1
    /\ UNCHANGED <<errno, callVars, nb, out, info, optarg, optstatus, optval, seen>>

\* case '?': errx(1, "Unrecognized option")
OptUnrecognized ==
    /\ pc = "parseopts" /\ nopts < MaxOpts
    /\ Exit(1, "Unrecognized option") /\ nopts' = nopts + 1
    /\ UNCHANGED <<errno, callVars, nb, out, info, optarg, optstatus, optval, seen>>

\* if (optind >= argc) help(1);
NoOperand ==
    /\ pc = "parseopts"
    /\ Exit(1, "help")
    /\ UNCHANGED <<errno, callVars, nb, out, info, optarg, optstatus, optval, nopts, seen>>

\* info.num = ensurenum(argv[optind], 0, info.base);
Operand(arg) ==
    /\ pc = "parseopts"
    /\ \E temp0 \in TempValues(arg, info.base, errno) :
         \E r \in {ensurenum(arg, info.base, errno, temp0)} :
            /\ str' = arg /\ base' = info.base /\ nump' = TRUE
            /\ num0' = temp0 /\ num' = r.val /\ ret' = r.status
            /\ errno' = r.errno
            /\ seen' = seen \cup {r.status}
            /\ IF r.exits
               THEN Exit(1, r.msg) /\ info' = info
               ELSE /\ info' = [info EXCEPT !.num = r.val]
                    /\ pc' = "main"
                    /\ UNCHANGED <<exitcode, msg>>
    /\ UNCHANGED <<nb, out, optarg, optstatus, optval, nopts>>

\* if (!(res = num2bin(info.num, buffer, sizeof(buffer)))) errx(1, ...);
\* printf(...); return 0;
MainPrint ==
    /\ pc = "main"
    /\ \E f \in {num2bin(info.num, BUFFER_SIZE)} :
         /\ nb' = f
         /\ IF f.null
            THEN Exit(1, "too large number") /\ out' = out
            ELSE Exit(0, "printed") /\ out' \in ResultStrings(f)
    /\ UNCHANGED <<errno, callVars, info, optarg, optstatus, optval, nopts, seen>>

Next ==
    \/ pc = "parseopts" /\ \E arg \in Texts : OptB(arg)
    \/ OptH
    \/ OptV
    \/ OptUnrecognized
    \/ NoOperand
    \/ pc = "parseopts" /\ \E arg \in Texts : Operand(arg)
    \/ MainPrint

Spec == Init /\ [][Next]_vars

\* ------------------------------------ str2ull called again and again
NumInits == {0, 5}

InitParse ==
    /\ pc = "idle" /\ errno = 0
    /\ InitCall /\ InitDriver
    /\ nb = NoFrame /\ out = <<>>

\* the caller sets up a call str2ull(s, p ? &num : 0, b), num holding n0
Prepare(s, b, p, n0) ==
    /\ pc = "idle"
    /\ pc' = "call"
    /\ str' = s /\ base' = b /\ nump' = p
    /\ num0' = n0 /\ num' = n0 /\ ret' = UNINIT
    /\ nb' = NoFrame /\ out' = <<>>
    /\ UNCHANGED <<errno, driverVars>>

\* the caller formats v with num2bin into a buffer of 1024 characters and
\* sets up str2ull(res, &num, 2)
PrepareRoundTrip(v, n0) ==
    /\ pc = "idle"
    /\ pc' = "call"
    /\ \E f \in {num2bin(v, BUFFER_SIZE)} :
         /\ nb' = f
         /\ \E t \in ResultStrings(f) : out' = t /\ str' = t
    /\ base' = MIN_BASE /\ nump' = TRUE
    /\ num0' = n0 /\ num' = n0 /\ ret' = UNINIT
    /\ UNCHANGED <<errno, driverVars>>

\* the call itself
Str2ullCall ==
    /\ pc = "call"
    /\ pc' = "ret"
    /\ \E r \in {str2ull(str, nump, num, base, errno)} :
         ret' = r.ret /\ num' = r.num /\ errno' = r.errno
    /\ UNCHANGED <<str, base, nump, num0, nb, out, driverVars>>

\* the caller is done with the result; errno stays as the call left it
Forget ==
    /\ pc = "ret"
    /\ pc' = "idle"
    /\ str' = NULL /\ base' = 0 /\ nump' = FALSE
    /\ num0' = UNINIT /\ num' = UNINIT /\ ret' = UNINIT
    /\ nb' = NoFrame /\ out' = <<>>
    /\ UNCHANGED <<errno, driverVars>>

NextParse ==
    \/ pc = "idle" /\ \E s \in Texts \cup {NULL}, b \in Bases, n0 \in NumInits :
                         Prepare(s, b, TRUE, n0)
    \/ pc = "idle" /\ \E s \in Texts \cup {NULL}, b \in Bases :
                         Prepare(s, b, FALSE, UNINIT)
    \/ pc = "idle" /\ \E v \in Values, n0 \in NumInits : PrepareRoundTrip(v, n0)
    \/ Str2ullCall
    \/ Forget

SpecParse == InitParse /\ [][NextParse]_vars

\* ------------------------------------------- num2bin, statement by statement
InitBin ==
    /\ pc = "num2bin" /\ errno = 0
    /\ InitCall /\ InitDriver
    /\ nb \in {num2binFrame(v, cap) : v \in Values, cap \in 0..MaxCap}
    /\ out = <<>>

Num2binEntry ==
    /\ pc = "num2bin" /\ nb.pc = "entry"
    /\ nb' = num2binEntry(nb)
    /\ UNCHANGED <<pc, errno, callVars, out, driverVars>>

Num2binTest ==
    /\ pc = "num2bin" /\ nb.pc = "test"
    /\ nb' = num2binTest(nb)
    /\ UNCHANGED <<pc, errno, callVars, out, driverVars>>

Num2binBody ==
    /\ pc = "num2bin" /\ nb.pc = "body"
    /\ nb' = num2binBody(nb)
    /\ UNCHANGED <<pc, errno, callVars, out, driverVars>>

Num2binReturn ==
    /\ pc = "num2bin" /\ nb.pc = "ret"
    /\ nb' = num2binReturn(nb)
    /\ UNCHANGED <<pc, errno, callVars, out, driverVars>>

\* the caller reads the string at the returned pointer
ReadResult ==
    /\ pc = "num2bin" /\ nb.pc = "done" /\ ~nb.null
    /\ pc' = "read"
    /\ out' \in ResultStrings(nb)
    /\ UNCHANGED <<errno, callVars, nb, driverVars>>

NextBin ==
    \/ Num2binEntry
    \/ Num2binTest
    \/ Num2binBody
    \/ Num2binReturn
    \/ ReadResult

SpecBin == InitBin /\ [][NextBin]_vars

\* ------------------------------------------------- what the claims speak of
\* the value a string of digits denotes in base b, least significant last
RECURSIVE Denote(_, _)
Denote(N, b) ==
    IF N = <<>> THEN 0 ELSE Denote(SubSeq(N, 1, Len(N) - 1), b) * b + DigitVal(N[Len(N)])

\* N is a non-empty text made only of digits valid in base b
OnlyDigits(N, b) ==
    /\ N # NULL /\ N # <<>>
    /\ \A i \in DOMAIN N : DigitVal(N[i]) < b

\* N is digits only, apart from the 0x / 0 prefix where the base permits it
WholeNumeral(N, b) ==
    /\ N # NULL /\ N # <<>>
    /\ \/ b \notin {0, 16} /\ OnlyDigits(N, b)
       \/ b = 16 /\ OnlyDigits(N, 16)
       \/ b = 0 /\ N[1] = "0" /\ OnlyDigits(N, 8)
       \/ b = 0 /\ N[1] # "0" /\ OnlyDigits(N, 10)
       \/ /\ b \in {0, 16} /\ Len(N) > 2 /\ N[1] = "0" /\ N[2] \in {"x", "X"}
          /\ OnlyDigits(SubSeq(N, 3, Len(N)), 16)

\* the number of significant binary digits of v
RECURSIVE BinDigits(_)
BinDigits(v) == IF v < 2 THEN 1 ELSE 1 + BinDigits(v \div 2)

\* the minimal binary numeral of v, most significant bit first
RECURSIVE BinRep(_)
BinRep(v) ==
    IF v < 2 THEN <<DecDigits[v + 1]>> ELSE BinRep(v \div 2) \o <<DecDigits[(v % 2) + 1]>>

Fits(f) == f.cap >= BinDigits(f.v) + 1

\* ------------------------------------------------------------------ claims

\* C1: every numeral made only of digits valid in base B (2 <= B <= 36)
\* whose value is at most ULLONG_MAX makes str2ull return SUCCESS and store
\* exactly the value it denotes. (Stated as claimed; the code breaks it.)
C1_ValidNumeralSucceeds ==
    (pc = "ret" /\ nump /\ base >= MIN_BASE /\ base <= MAX_BASE
        /\ OnlyDigits(str, base) /\ Denote(str, base) <= ULLONG_MAX)
    => (ret = SUCCESS /\ num = Denote(str, base))

\* C2: every non-success outcome of the parser, for the numeral and for the
\* -b argument alike, ends the run with exit code 1, and the output line is
\* reached only when the parser returned SUCCESS and the value printed is
\* the value the parser stored. (Stated as claimed; the code breaks it.)
C2_FailureExits ==
    /\ (seen \ {SUCCESS} # {}) => (pc = "exit" /\ exitcode = 1)
    /\ (msg = "printed") => (seen = {SUCCESS} /\ ret = SUCCESS /\ info.num = num)

\* C3: formatting V with num2bin into 1024 characters and parsing the result
\* with str2ull in base 2 returns SUCCESS with V stored. (Stated as claimed;
\* the code breaks it.)
C3_RoundTrip ==
    (pc = "ret" /\ nb.pc = "done") => (ret = SUCCESS /\ num = nb.v)

\* C4: num2bin returns NULL whenever the capacity is smaller than the number
\* of significant binary digits plus one; otherwise it returns a string of
\* exactly that many digits. (Stated as claimed; the code breaks it.)
C4_TooSmallReturnsNull ==
    (nb.pc = "done")
    => IF ~Fits(nb) THEN nb.null
       ELSE /\ ~nb.null /\ InBuf(nb, nb.off)
            /\ Len(StringAt(nb, nb.off)) = BinDigits(nb.v)

\* C5: a -b argument that parses as a decimal value outside [2, 36] ends the
\* run with the unsupported-base error and exit code 1; no base is derived
\* from it. (Stated as claimed; the code breaks it.)
C5_BaseOutsideRangeRejected ==
    (optstatus = SUCCESS /\ (optval < MIN_BASE \/ optval > MAX_BASE))
    => (pc = "exit" /\ exitcode = 1 /\ msg = "Unsupported base" /\ info.base = 0)

\* C6: str2ull classifies malformed input as documented: a consumed prefix
\* followed by unconsumed characters gives INCOMPLETE with the prefix's
\* value in num; nothing consumed gives FAILURE, a value out of range gives
\* OVERFLOW, a null or empty str or a null num gives INVALID_ARGS, each with
\* num unchanged. (Stated as claimed; the code breaks it.)
C6_MalformedClassified ==
    (pc = "ret")
    => IF str = NULL \/ str = <<>> \/ ~nump
       THEN ret = INVALID_ARGS /\ num = num0
       ELSE \E r \in {strtoull(str, base)} :
              /\ (r.end = 1) => (ret = FAILURE /\ num = num0)
              /\ r.range => (ret = OVERFLOW /\ num = num0)
              /\ (r.end > 1 /\ r.end <= Len(str) /\ ~r.range)
                    => (ret = INCOMPLETE /\ num = r.val)

\* C7: str2ull returns SUCCESS only for a text that is digits of the base
\* throughout (apart from the 0x / 0 prefix): never for a text with a
\* leading sign or leading whitespace. (Stated as claimed; the code breaks it.)
C7_SuccessOnlyDigits ==
    (pc = "ret" /\ ret = SUCCESS) => WholeNumeral(str, base)

\* C8: when the capacity is at least the number of significant binary
\* digits of V plus one, num2bin returns the minimal binary numeral of V:
\* '0'/'1' characters, most significant bit first, no leading zero, of value
\* V, terminated inside the buffer; "0" for V = 0.
C8_MinimalBinary ==
    /\ (nb.pc = "done" /\ Fits(nb))
          => /\ ~nb.null /\ InBuf(nb, nb.off)
             /\ StringAt(nb, nb.off) = BinRep(nb.v)
             /\ Denote(StringAt(nb, nb.off), 2) = nb.v
             /\ (nb.v = 0 => StringAt(nb, nb.off) = <<"0">>)
    /\ (pc = "read" /\ Fits(nb)) => out = BinRep(nb.v)

C8_Witness ==
    /\ pc = "read" /\ nb.v > 1 /\ nb.cap = BinDigits(nb.v) + 1

\* C9: the outcome of a str2ull call depends only on its arguments: it is
\* the outcome of the same call in a process whose errno was never set,
\* whatever calls preceded it. (Stated as claimed; the code breaks it.)
C9_PureFunction ==
    (pc = "ret")
    => \E r \in {str2ull(str, nump, num0, base, 0)} : ret = r.ret /\ num = r.num

\* C10: for every capacity >= 1, num2bin stores every character and the
\* terminator at an index in [0, capacity - 1], at every step, also when the
\* capacity is too small for the value.
C10_WritesInsideBuffer ==
    (nb.pc # "none" /\ nb.cap >= 1)
    => /\ nb.oob = {} /\ nb.pc # "undefined"
       /\ DOMAIN nb.buf \subseteq 0..(nb.cap - 1)

C10_Witness ==
    /\ nb.pc = "done" /\ nb.cap >= 2 /\ ~Fits(nb) /\ nb.n = 0
    /\ DOMAIN nb.buf = 0..(nb.cap - 1)

====
